---------------------------- MODULE Spec2Model ----------------------------
(***************************************************************************)
(* A model of the ONDC TAT breach dashboard (src/app.py): header           *)
(* resolution over two workbooks, row mapping, per-order stage breaches    *)
(* and the order-level report that pairs stages with notes.                *)
(*                                                                         *)
(* Values.  A nullable value (a pandas Timestamp or NaT, a float or None)  *)
(* is a sequence of length at most one: << >> is NaT / None, <<v>> is the  *)
(* value v.  Timestamps are timezone-naive instants counted in whole       *)
(* minutes since 1970-01-01 00:00.  A worksheet cell is a record with a    *)
(* kind k: "nan" (empty cell), "str", "num" (a number), "ts" (a native     *)
(* datetime); "none" is Python's None, which pick returns when no column   *)
(* matches.  Text is TLA+ strings, handled character by character.         *)
(***************************************************************************)
EXTENDS Integers, Sequences, FiniteSets, TLC

NaT == << >>
None == << >>
isna(x) == x = << >>
Val(x) == x[1]

NanCell == [k |-> "nan"]
NoneCell == [k |-> "none"]
StrCell(s) == [k |-> "str", v |-> s]
NumCell(n) == [k |-> "num", v |-> n]
TsCell(t) == [k |-> "ts", v |-> t]

(***************************************************************************)
(* Text helpers of the Python runtime: str.lower, str.strip, str.replace.  *)
(***************************************************************************)
Upper == <<"A","B","C","D","E","F","G","H","I","J","K","L","M",
           "N","O","P","Q","R","S","T","U","V","W","X","Y","Z">>
Lowers == <<"a","b","c","d","e","f","g","h","i","j","k","l","m",
            "n","o","p","q","r","s","t","u","v","w","x","y","z">>

LowerChar(c) ==
    IF \E i \in 1..26 : Upper[i] = c
    THEN Lowers[CHOOSE i \in 1..26 : Upper[i] = c]
    ELSE c

RECURSIVE lower(_)
lower(s) ==
    IF s = "" THEN ""
    ELSE LowerChar(SubSeq(s, 1, 1)) \o lower(SubSeq(s, 2, Len(s)))

IsSpace(c) == c \in {" ", "\n", "\t"}

RECURSIVE lstrip(_)
lstrip(s) ==
    IF s # "" /\ IsSpace(SubSeq(s, 1, 1)) THEN lstrip(SubSeq(s, 2, Len(s))) ELSE s

RECURSIVE rstrip(_)
rstrip(s) ==
    IF s # "" /\ IsSpace(SubSeq(s, Len(s), Len(s)))
    THEN rstrip(SubSeq(s, 1, Len(s) - 1)) ELSE s

strip(s) == rstrip(lstrip(s))

\* s.replace(old, new) for a one-character old
RECURSIVE replace_char(_, _, _)
replace_char(s, old, new) ==
    IF s = "" THEN ""
    ELSE (IF SubSeq(s, 1, 1) = old THEN new ELSE SubSeq(s, 1, 1))
         \o replace_char(SubSeq(s, 2, Len(s)), old, new)

\* s.replace("  ", " "): one left-to-right pass over non-overlapping pairs
RECURSIVE replace_2sp(_)
replace_2sp(s) ==
    IF Len(s) < 2 THEN s
    ELSE IF SubSeq(s, 1, 2) = "  " THEN " " \o replace_2sp(SubSeq(s, 3, Len(s)))
    ELSE SubSeq(s, 1, 1) \o replace_2sp(SubSeq(s, 2, Len(s)))

Range(f) == {f[i] : i \in DOMAIN f}

(***************************************************************************)
(* Header aliases.                                                         *)
(***************************************************************************)
ORDER_ID_ALIASES ==
    <<"Network Order Id", "Network Order ID", "Network order id", "order id",
      "Order ID", "Order No", "Order Number", "Order #", "Order Reference",
      "Network Ref">>

OrderFields == <<"createdOn", "placedAt", "acceptedAt", "readyAt", "shippedAt">>

ORDERS_COL_ALIASES ==
    [createdOn  |-> <<"Created On", "Created", "Created Date", "Created Time">>,
     placedAt   |-> <<"Order Placed Time", "Placed At", "Order Placed", "Placed Time">>,
     acceptedAt |-> <<"Order Accepted Time", "Accepted At", "Order Accepted",
                      "Accepted Time">>,
     readyAt    |-> <<"Order Ready Time", "Ready At", "Order Ready", "Ready Time">>,
     shippedAt  |-> <<"Shipped At Date & Time", "Shipped at", "Shipped At",
                      "Shipped Time", "Out For Delivery">>]

NOTES_ID_ALIASES ==
    <<"Network order ID", "Network Order Id", "Network Order ID", "Network order id",
      "Order ID", "Order No", "Order Number", "Order #", "Order Reference",
      "Network Ref">>

NOTES_COL_ALIASES ==
    [noteAt      |-> <<"Created at", "Note Time", "Created On", "Created">>,
     description |-> <<"Description", "Notes", "Comment", "Body">>,
     agent       |-> <<"Reported by", "Agent", "Agent Name", "User", "Updated By",
                       "Created By", "Author", "Owner", "Assignee">>]

(***************************************************************************)
(* The column labels of the workbooks the model is run on.                 *)
(***************************************************************************)
GoodOrderCols ==
    <<"Network Order Id", "Created On", "Order Placed Time", "Order Accepted Time",
      "Order Ready Time", "Shipped At Date & Time">>
MessyOrderCols ==
    <<" order id", "CREATED", "Placed  At", "Order\nAccepted", "ready\ttime ",
      "Out For Delivery">>
NoShippedCols ==
    <<"Network Order Id", "Created On", "Order Placed Time", "Order Accepted Time",
      "Order Ready Time", "Shipped">>
NoIdNoCreatedCols ==
    <<"Order", "Created   On", "Placed At", "Accepted At", "Ready At", "Shipped at">>

GoodNoteCols == <<"Network order ID", "Created at", "Description", "Reported by">>
NoAgentNoteCols == <<"Order #", "NOTE  TIME", "Comment", "Status">>
NoTimeNoteCols == <<"Order ID", "Time", "Notes", "Agent">>

TitleFrame == [cols |-> <<"TAT Report", "Unnamed: 1">>, rows |-> << >>]

ColumnMenus ==
    {GoodOrderCols, MessyOrderCols, NoShippedCols, NoIdNoCreatedCols,
     GoodNoteCols, NoAgentNoteCols, NoTimeNoteCols, TitleFrame.cols}

\* normalize, character by character
normalize_text(s) ==
    replace_2sp(replace_char(replace_char(strip(lower(s)), "\n", " "), "\t", " "))

\* labels for the rows pick is applied to on its own: two that differ only in
\* case and spacing, a second alias of the same field, another field, none
PickLabels == {"Created On", "created  on ", "Created", "Placed At", "Remarks"}

\* normalize, with the results for the aliases and for the labels the
\* workbooks below carry computed once
KnownLabels ==
    Range(ORDER_ID_ALIASES) \cup Range(NOTES_ID_ALIASES)
    \cup UNION {Range(ORDERS_COL_ALIASES[f]) : f \in DOMAIN ORDERS_COL_ALIASES}
    \cup UNION {Range(NOTES_COL_ALIASES[f]) : f \in DOMAIN NOTES_COL_ALIASES}
    \cup UNION {Range(c) : c \in ColumnMenus}
    \cup PickLabels

NormalizedLabel == [s \in KnownLabels |-> normalize_text(s)]

normalize(s) == IF s \in KnownLabels THEN NormalizedLabel[s] ELSE normalize_text(s)

\* the set {normalize(c) for c in labels}
norm_set(labels) == {normalize(labels[i]) : i \in DOMAIN labels}

(***************************************************************************)
(* pick: keys maps each normalized label to the LAST column carrying it    *)
(* (a dict comprehension overwrites); the first candidate, in alias        *)
(* order, whose normalized form is a key selects the column.  A row is     *)
(* [cols, cells]: the labels (distinct, as pandas makes them) and the      *)
(* cells under them.                                                       *)
(***************************************************************************)
\* keys.get(n): the position of the last column whose normalized label is
\* n, 0 when there is none; norms are the normalized labels in column order
KeyPos(norms, n) ==
    IF \E i \in DOMAIN norms : norms[i] = n
    THEN CHOOSE i \in DOMAIN norms :
            /\ norms[i] = n
            /\ \A j \in DOMAIN norms : norms[j] = n => j <= i
    ELSE 0

RECURSIVE pick_pos_from(_, _, _)
pick_pos_from(norms, candidates, c) ==
    IF c > Len(candidates) THEN 0
    ELSE LET k == KeyPos(norms, normalize(candidates[c]))
         IN  IF k # 0 THEN k ELSE pick_pos_from(norms, candidates, c + 1)

\* the position of the column pick reads, 0 when it returns None
pick_pos(cols, candidates) ==
    pick_pos_from([i \in DOMAIN cols |-> normalize(cols[i])], candidates, 1)

pick(row, candidates) ==
    LET k == pick_pos(row.cols, candidates)
    IN  IF k = 0 THEN NoneCell ELSE row.cells[k]

has_any(colset, aliases) ==
    LET norm == norm_set(colset)
    IN  \E i \in DOMAIN aliases : normalize(aliases[i]) \in norm

(***************************************************************************)
(* Helpers.                                                                *)
(***************************************************************************)
to_datetime_str(s) ==
    \* pd.to_datetime(text, errors="coerce"): text that is a date and a clock
    \* time parses to that instant, anything else is coerced to NaT
    IF /\ Len(s) = 16
       /\ SubSeq(s, 1, 11) = "1970-01-01 "
       /\ SubSeq(s, 14, 14) = ":"
       /\ \A i \in {12, 13, 15, 16} : \E d \in 0..9 : ToString(d) = SubSeq(s, i, i)
    THEN LET D(i) == CHOOSE d \in 0..9 : ToString(d) = SubSeq(s, i, i)
             h == 10 * D(12) + D(13)
             m == 10 * D(15) + D(16)
         IN  IF h < 24 /\ m < 60 THEN <<60 * h + m>> ELSE NaT
    ELSE NaT

to_dt(x) ==
    IF x.k = "none" \/ (x.k = "str" /\ x.v = "") \/ x.k = "nan" THEN NaT
    ELSE CASE x.k = "ts"  -> <<x.v>>
           [] x.k = "num" -> <<0>>   \* x.v nanoseconds after the epoch: minute 0
           [] x.k = "str" -> to_datetime_str(x.v)

Max(a, b) == IF a >= b THEN a ELSE b

\* diff_min without the clamp at 0
diff_min_unclamped(a, b) ==
    IF isna(a) \/ isna(b) THEN None ELSE <<Val(b) - Val(a)>>

diff_min(a, b) ==
    IF isna(a) \/ isna(b) THEN None ELSE <<Max(0, Val(b) - Val(a))>>

(***************************************************************************)
(* Stage config.                                                           *)
(***************************************************************************)
BREACH_NOTE_GRACE_MIN == 5

STAGE_LABELS ==
    [created_to_placed      |-> "Created -> Placed",
     placed_to_accepted     |-> "Placed -> Accepted",
     accepted_to_in_kitchen |-> "Order Accepted -> Kitchen",
     in_kitchen_to_ready    |-> "In Kitchen -> Ready",
     ready_to_shipped       |-> "Ready -> Shipped"]

THRESHOLDS ==
    [created_to_placed      |-> 5,
     placed_to_accepted     |-> 7,
     accepted_to_in_kitchen |-> 5,
     in_kitchen_to_ready    |-> 15,
     ready_to_shipped       |-> 10]

STAGE_ORDER ==
    <<"created_to_placed", "placed_to_accepted", "accepted_to_in_kitchen",
      "in_kitchen_to_ready", "ready_to_shipped">>

\* sorted(..., key=...): the positions of keys in stable ascending order of
\* their (integer) key
RECURSIVE insert_sorted(_, _, _)
insert_sorted(order, i, keys) ==
    IF order = << >> THEN <<i>>
    ELSE IF keys[i] < keys[Head(order)]
         THEN <<i>> \o order
         ELSE <<Head(order)>> \o insert_sorted(Tail(order), i, keys)

RECURSIVE sorted_order(_, _)
sorted_order(n, keys) ==
    IF n = 0 THEN << >>
    ELSE insert_sorted(sorted_order(n - 1, keys), n, keys)

\* an unstable sort: equal keys come out in reverse order
RECURSIVE insert_before_equal(_, _, _)
insert_before_equal(order, i, keys) ==
    IF order = << >> THEN <<i>>
    ELSE IF keys[i] <= keys[Head(order)]
         THEN <<i>> \o order
         ELSE <<Head(order)>> \o insert_before_equal(Tail(order), i, keys)

RECURSIVE unstable_order(_, _)
unstable_order(n, keys) ==
    IF n = 0 THEN << >>
    ELSE insert_before_equal(unstable_order(n - 1, keys), n, keys)

sorted_unstable(seq, keys) ==
    [p \in 1..Len(seq) |-> seq[unstable_order(Len(seq), keys)[p]]]

sorted(seq, keys) ==
    [p \in 1..Len(seq) |-> seq[sorted_order(Len(seq), keys)[p]]]

\* add_stage with >= in place of >
add_stage_ge(key, start, end) ==
    LET dur == diff_min(start, end)
    IN  [key          |-> key,
         label        |-> STAGE_LABELS[key],
         threshold    |-> THRESHOLDS[key],
         duration     |-> dur,
         breached     |-> (dur # None /\ Val(dur) >= THRESHOLDS[key]),
         segmentStart |-> start,
         segmentEnd   |-> end]

add_stage(key, start, end) ==
    LET dur == diff_min(start, end)
    IN  [key          |-> key,
         label        |-> STAGE_LABELS[key],
         threshold    |-> THRESHOLDS[key],
         duration     |-> dur,
         breached     |-> (dur # None /\ Val(dur) > THRESHOLDS[key]),
         segmentStart |-> start,
         segmentEnd   |-> end]

compute_breaches(order_row) ==
    LET stages ==
            <<add_stage("created_to_placed", order_row.createdOn, order_row.placedAt),
              add_stage("placed_to_accepted", order_row.placedAt, order_row.acceptedAt),
              add_stage("accepted_to_in_kitchen", order_row.acceptedAt, order_row.readyAt),
              add_stage("in_kitchen_to_ready", order_row.acceptedAt, order_row.readyAt),
              add_stage("ready_to_shipped", order_row.readyAt, order_row.shippedAt)>>
        IsBreached(s) == s.breached /\ ~isna(s.segmentEnd)
        cand == SelectSeq(stages, IsBreached)
        breached == sorted(cand, [i \in 1..Len(cand) |-> Val(cand[i].segmentEnd)])
    IN  [stages               |-> stages,
         first_breach         |-> IF breached # << >> THEN <<breached[1]>> ELSE None,
         earliest_breach_time |-> IF breached # << >> THEN breached[1].segmentEnd
                                  ELSE NaT]

(***************************************************************************)
(* Python's str(x), truthiness (x or ""), and strftime.                    *)
(***************************************************************************)
Pad2(n) == IF n < 10 THEN "0" \o ToString(n) ELSE ToString(n)

\* strftime("%Y-%m-%d %H:%M") of minute t after 1970-01-01 00:00 (January)
strftime(t) ==
    "1970-01-" \o Pad2(1 + (t \div 1440)) \o " "
        \o Pad2((t % 1440) \div 60) \o ":" \o Pad2(t % 60)

str(x) ==
    CASE x.k = "str"  -> x.v
      [] x.k = "num"  -> ToString(x.v)
      [] x.k = "ts"   -> strftime(x.v) \o ":00"
      [] x.k = "nan"  -> "nan"
      [] x.k = "none" -> "None"

Truthy(x) ==
    CASE x.k = "str"  -> x.v # ""
      [] x.k = "num"  -> x.v # 0
      [] x.k = "ts"   -> TRUE
      [] x.k = "nan"  -> TRUE
      [] x.k = "none" -> FALSE

\* pd.isna of a cell
isna_cell(x) == x.k \in {"none", "nan"}

Dash == "-"

fmt_time(x) == IF isna(x) THEN Dash ELSE strftime(Val(x))

(***************************************************************************)
(* Header validation.  A DataFrame is [cols, rows]: the column labels and, *)
(* per data row, the cells under them.  A list of missing-column messages  *)
(* is modelled by the fields the messages are about.                       *)
(***************************************************************************)
RECURSIVE missing_fields(_, _, _, _)
missing_fields(cols, fields, aliases, i) ==
    IF i > Len(fields) THEN << >>
    ELSE (IF ~has_any(cols, aliases[fields[i]]) THEN <<fields[i]>> ELSE << >>)
         \o missing_fields(cols, fields, aliases, i + 1)

\* validate_orders_columns without the identifier check
validate_orders_columns_no_id(df) ==
    missing_fields(df.cols, OrderFields, ORDERS_COL_ALIASES, 1)

validate_orders_columns(df) ==
    (IF ~has_any(df.cols, ORDER_ID_ALIASES) THEN <<"identifier">> ELSE << >>)
    \o missing_fields(df.cols, OrderFields, ORDERS_COL_ALIASES, 1)

validate_notes_columns(df) ==
    (IF ~has_any(df.cols, NOTES_ID_ALIASES) THEN <<"identifier">> ELSE << >>)
    \o (IF ~has_any(df.cols, NOTES_COL_ALIASES.noteAt) THEN <<"noteAt">> ELSE << >>)

(***************************************************************************)
(* Row mapping.                                                            *)
(***************************************************************************)
Row(df, i) == [cols |-> df.cols, cells |-> df.rows[i]]

RECURSIVE map_orders_from(_, _)
map_orders_from(df, i) ==
    IF i > Len(df.rows) THEN << >>
    ELSE LET r == Row(df, i)
             idv == pick(r, ORDER_ID_ALIASES)
         IN  (IF isna_cell(idv) THEN << >>
              ELSE <<[id         |-> strip(str(idv)),
                      createdOn  |-> to_dt(pick(r, ORDERS_COL_ALIASES.createdOn)),
                      placedAt   |-> to_dt(pick(r, ORDERS_COL_ALIASES.placedAt)),
                      acceptedAt |-> to_dt(pick(r, ORDERS_COL_ALIASES.acceptedAt)),
                      readyAt    |-> to_dt(pick(r, ORDERS_COL_ALIASES.readyAt)),
                      shippedAt  |-> to_dt(pick(r, ORDERS_COL_ALIASES.shippedAt))]>>)
             \o map_orders_from(df, i + 1)

map_orders(df) == map_orders_from(df, 1)

\* x or ""
or_empty(x) == IF Truthy(x) THEN x ELSE StrCell("")

\* map_notes returns [raised, out]: raised when (... or "").strip() is applied
\* to a value that is no str (AttributeError), out the records otherwise
RECURSIVE map_notes_from(_, _)
map_notes_from(df, i) ==
    IF i > Len(df.rows) THEN [raised |-> FALSE, out |-> << >>]
    ELSE LET r == Row(df, i)
             idv == pick(r, NOTES_ID_ALIASES)
             agent == or_empty(pick(r, NOTES_COL_ALIASES.agent))
             rest == map_notes_from(df, i + 1)
         IN  IF isna_cell(idv) THEN rest
             ELSE IF agent.k # "str" THEN [raised |-> TRUE, out |-> << >>]
             ELSE IF rest.raised THEN rest
             ELSE [raised |-> FALSE,
                   out |-> <<[id          |-> strip(str(idv)),
                              noteAt      |-> to_dt(pick(r, NOTES_COL_ALIASES.noteAt)),
                              description |-> or_empty(pick(r, NOTES_COL_ALIASES.description)),
                              agent       |-> strip(agent.v)]>> \o rest.out]

map_notes(df) == map_notes_from(df, 1)

(***************************************************************************)
(* Header row detection.  A workbook is the function from the header       *)
(* indices at which pd.read_excel succeeds to the DataFrame it returns     *)
(* there; at any other index the read raises and _read returns None.       *)
(***************************************************************************)
HEADER_SCAN_STOP == 31

_read(file, idx) == IF idx \in DOMAIN file THEN <<file[idx]>> ELSE None

validate_columns(df, is_orders) ==
    IF is_orders THEN validate_orders_columns(df) ELSE validate_notes_columns(df)

RECURSIVE scan_headers(_, _, _)
scan_headers(file, is_orders, idx) ==
    IF idx >= HEADER_SCAN_STOP THEN None
    ELSE LET df == _read(file, idx)
         IN  IF df # None /\ validate_columns(Val(df), is_orders) = << >>
             THEN df
             ELSE scan_headers(file, is_orders, idx + 1)

load_with_header_auto(file, preferred_header_index, is_orders) ==
    LET preferred == IF preferred_header_index # None
                     THEN _read(file, Val(preferred_header_index)) ELSE None
        scanned == scan_headers(file, is_orders, 0)
    IN  IF preferred # None /\ validate_columns(Val(preferred), is_orders) = << >>
        THEN preferred
        ELSE IF scanned # None THEN scanned
        ELSE _read(file, IF preferred_header_index # None
                         THEN Val(preferred_header_index) ELSE 0)

(***************************************************************************)
(* The order-level report.  A report row carries the ten columns of the    *)
(* table; src is bookkeeping that is no column: the positions of the       *)
(* order in enriched, of the stage among its stages and of the note among  *)
(* its notes (0: none) the row was written for.                            *)
(***************************************************************************)
fmt_td_gap(breach_time, note_time) ==
    IF isna(breach_time) \/ isna(note_time) THEN Dash
    ELSE LET secs == 60 * (Val(note_time) - Val(breach_time))
             abs == IF secs < 0 THEN 0 - secs ELSE secs
         IN  (IF secs < 0 THEN "-" ELSE "") \o Pad2(abs \div 60) \o ":" \o Pad2(abs % 60)

placeholder_row(er, ord) ==
    [id |-> er.id, breached |-> Dash, stage |-> Dash, tat_time |-> Dash,
     note_time |-> Dash, agent |-> Dash, desc |-> Dash, within5 |-> Dash,
     after5 |-> Dash, gap |-> Dash, src |-> [ord |-> ord, stage |-> 0, note |-> 0]]

stage_only_row(er, ord, k) ==
    LET stage == er.stages[k]
    IN  [id |-> er.id, breached |-> IF stage.breached THEN "Yes" ELSE "No",
         stage |-> STAGE_LABELS[stage.key], tat_time |-> fmt_time(stage.segmentEnd),
         note_time |-> Dash, agent |-> Dash, desc |-> Dash, within5 |-> Dash,
         after5 |-> Dash, gap |-> Dash, src |-> [ord |-> ord, stage |-> k, note |-> 0]]

\* note_row with the grace window open at its far end (< in place of <=)
note_row_open_window(er, ord, k, j) ==
    LET stage == er.stages[k]
        n == er.notes[j]
        tat_time == stage.segmentEnd
        note_time == n.noteAt
        classify == stage.breached /\ ~isna(tat_time) /\ ~isna(note_time)
        within == /\ classify
                  /\ Val(tat_time) <= Val(note_time)
                  /\ Val(note_time) < Val(tat_time) + BREACH_NOTE_GRACE_MIN
        after == /\ classify
                 /\ ~within
                 /\ Val(note_time) > Val(tat_time) + BREACH_NOTE_GRACE_MIN
    IN  [id |-> er.id, breached |-> IF stage.breached THEN "Yes" ELSE "No",
         stage |-> STAGE_LABELS[stage.key], tat_time |-> fmt_time(tat_time),
         note_time |-> fmt_time(note_time),
         agent |-> IF n.agent # "" THEN n.agent ELSE Dash,
         desc |-> IF Truthy(n.description) THEN str(n.description) ELSE Dash,
         within5 |-> IF within THEN "Yes" ELSE Dash,
         after5 |-> IF after THEN "Yes" ELSE Dash,
         gap |-> fmt_td_gap(tat_time, note_time),
         src |-> [ord |-> ord, stage |-> k, note |-> j]]

note_row(er, ord, k, j) ==
    LET stage == er.stages[k]
        n == er.notes[j]
        tat_time == stage.segmentEnd
        note_time == n.noteAt
        classify == stage.breached /\ ~isna(tat_time) /\ ~isna(note_time)
        within == /\ classify
                  /\ Val(tat_time) <= Val(note_time)
                  /\ Val(note_time) <= Val(tat_time) + BREACH_NOTE_GRACE_MIN
        after == /\ classify
                 /\ ~within
                 /\ Val(note_time) > Val(tat_time) + BREACH_NOTE_GRACE_MIN
    IN  [id |-> er.id, breached |-> IF stage.breached THEN "Yes" ELSE "No",
         stage |-> STAGE_LABELS[stage.key], tat_time |-> fmt_time(tat_time),
         note_time |-> fmt_time(note_time),
         agent |-> IF n.agent # "" THEN n.agent ELSE Dash,
         desc |-> IF Truthy(n.description) THEN str(n.description) ELSE Dash,
         within5 |-> IF within THEN "Yes" ELSE Dash,
         after5 |-> IF after THEN "Yes" ELSE Dash,
         gap |-> fmt_td_gap(tat_time, note_time),
         src |-> [ord |-> ord, stage |-> k, note |-> j]]

\* the report loop walking only the breached stages
reported_stage_breached_only(s) == s.breached /\ ~isna(s.segmentEnd)

\* the stages the report loop walks: those with a present segmentEnd
reported_stage(s) == ~isna(s.segmentEnd)

RECURSIVE note_rows(_, _, _, _)
note_rows(er, ord, k, j) ==
    IF j > Len(er.notes) THEN << >>
    ELSE <<note_row(er, ord, k, j)>> \o note_rows(er, ord, k, j + 1)

RECURSIVE stage_rows(_, _, _)
stage_rows(er, ord, k) ==
    IF k > Len(er.stages) THEN << >>
    ELSE (IF ~reported_stage(er.stages[k]) THEN << >>
          ELSE IF er.notes = << >> THEN <<stage_only_row(er, ord, k)>>
          ELSE note_rows(er, ord, k, 1))
         \o stage_rows(er, ord, k + 1)

report_rows(er, ord) ==
    IF \A k \in DOMAIN er.stages : ~reported_stage(er.stages[k])
    THEN <<placeholder_row(er, ord)>>
    ELSE stage_rows(er, ord, 1)

\* notes.sort_values("noteAt", na_position="first")
sort_notes(ns) == sorted(ns, [i \in 1..Len(ns) |-> IF isna(ns[i].noteAt) THEN -1
                                                    ELSE Val(ns[i].noteAt)])

\* notes_by_id.get_group(id), or the empty frame when id is no group
notes_group(ns, id) == SelectSeq(ns, LAMBDA n : n.id = id)

enrich(row, ns) ==
    LET b == compute_breaches(row)
    IN  [id |-> row.id, stages |-> b.stages, first_breach |-> b.first_breach,
         earliest_breach_time |-> b.earliest_breach_time,
         createdOn |-> row.createdOn, placedAt |-> row.placedAt,
         acceptedAt |-> row.acceptedAt, readyAt |-> row.readyAt,
         shippedAt |-> row.shippedAt, notes |-> notes_group(ns, row.id)]

(***************************************************************************)
(* State.  pc is the place the run of the script has reached; the two      *)
(* workbooks are the run's inputs; the other variables are the script's    *)
(* globals of the same names (None / empty until assigned).  reported      *)
(* counts the entries of enriched the report loop has walked.  error names *)
(* the exception that ended a crashed run and where it was raised.         *)
(* fn_in / fn_out hold the argument and the result when one function is    *)
(* exercised on its own.                                                   *)
(***************************************************************************)
VARIABLES pc, orders_file, notes_file, orders_raw, notes_raw, miss_orders,
          miss_notes, orders, notes, enriched, out_rows, reported, error,
          fn_in, fn_out

run_vars == <<orders_file, notes_file, orders_raw, notes_raw, miss_orders,
              miss_notes, orders, notes, enriched, out_rows, reported, error>>

vars == <<pc, run_vars, fn_in, fn_out>>

\* the globals before the script has assigned any of them
Unassigned ==
    /\ orders_raw = None /\ notes_raw = None
    /\ miss_orders = << >> /\ miss_notes = << >>
    /\ orders = << >> /\ notes = << >>
    /\ enriched = << >> /\ out_rows = << >>
    /\ reported = 0 /\ error = ""

NoRun == orders_file = << >> /\ notes_file = << >> /\ Unassigned

(***************************************************************************)
(* The run of the script, lines 211-381.                                   *)
(***************************************************************************)
ORDERS_HEADER_INDEX == 11
NOTES_HEADER_INDEX == 0

LoadOrders ==
    /\ pc = "load_orders"
    /\ orders_raw' = load_with_header_auto(orders_file, <<ORDERS_HEADER_INDEX>>, TRUE)
    /\ pc' = "load_notes"
    /\ UNCHANGED <<orders_file, notes_file, notes_raw, miss_orders, miss_notes, orders,
                   notes, enriched, out_rows, reported, error, fn_in, fn_out>>

LoadNotes ==
    /\ pc = "load_notes"
    /\ notes_raw' = load_with_header_auto(notes_file, <<NOTES_HEADER_INDEX>>, FALSE)
    /\ pc' = "validate"
    /\ UNCHANGED <<orders_file, notes_file, orders_raw, miss_orders, miss_notes, orders,
                   notes, enriched, out_rows, reported, error, fn_in, fn_out>>

\* lines 214-221: df.columns of None raises AttributeError; any missing
\* column stops the run
Validate ==
    /\ pc = "validate"
    /\ IF orders_raw = None \/ notes_raw = None
       THEN /\ pc' = "crashed"
            /\ error' = "AttributeError in validate"
            /\ miss_orders' = IF orders_raw = None THEN miss_orders
                              ELSE validate_orders_columns(Val(orders_raw))
            /\ UNCHANGED miss_notes
       ELSE /\ miss_orders' = validate_orders_columns(Val(orders_raw))
            /\ miss_notes' = validate_notes_columns(Val(notes_raw))
            /\ pc' = IF miss_orders' # << >> \/ miss_notes' # << >>
                     THEN "stopped" ELSE "map_orders"
            /\ UNCHANGED error
    /\ UNCHANGED <<orders_file, notes_file, orders_raw, notes_raw, orders, notes,
                   enriched, out_rows, reported, fn_in, fn_out>>

MapOrders ==
    /\ pc = "map_orders"
    /\ orders' = map_orders(Val(orders_raw))
    /\ pc' = "map_notes"
    /\ UNCHANGED <<orders_file, notes_file, orders_raw, notes_raw, miss_orders,
                   miss_notes, notes, enriched, out_rows, reported, error, fn_in, fn_out>>

MapNotes ==
    /\ pc = "map_notes"
    /\ LET m == map_notes(Val(notes_raw))
       IN  IF m.raised
           THEN /\ pc' = "crashed"
                /\ error' = "AttributeError in map_notes"
                /\ UNCHANGED notes
           ELSE /\ notes' = m.out
                /\ pc' = "sort_notes"
                /\ UNCHANGED error
    /\ UNCHANGED <<orders_file, notes_file, orders_raw, notes_raw, miss_orders,
                   miss_notes, orders, enriched, out_rows, reported, fn_in, fn_out>>

\* lines 226-227: a DataFrame built from no records has no noteAt column,
\* and sort_values raises KeyError
SortNotes ==
    /\ pc = "sort_notes"
    /\ IF notes = << >>
       THEN /\ pc' = "crashed"
            /\ error' = "KeyError in sort_values"
            /\ UNCHANGED notes
       ELSE /\ notes' = sort_notes(notes)
            /\ pc' = "enrich"
            /\ UNCHANGED error
    /\ UNCHANGED <<orders_file, notes_file, orders_raw, notes_raw, miss_orders,
                   miss_notes, orders, enriched, out_rows, reported, fn_in, fn_out>>

\* lines 231-243: one iteration of the loop over orders
Enrich ==
    /\ pc = "enrich"
    /\ Len(enriched) < Len(orders)
    /\ enriched' = Append(enriched, enrich(orders[Len(enriched) + 1], notes))
    /\ UNCHANGED <<pc, orders_file, notes_file, orders_raw, notes_raw, miss_orders,
                   miss_notes, orders, notes, out_rows, reported, error, fn_in, fn_out>>

EnrichDone ==
    /\ pc = "enrich"
    /\ Len(enriched) = Len(orders)
    /\ pc' = "report"
    /\ UNCHANGED <<run_vars, fn_in, fn_out>>

\* lines 316-381: one iteration of the loop over enriched
Report ==
    /\ pc = "report"
    /\ reported < Len(enriched)
    /\ out_rows' = out_rows \o report_rows(enriched[reported + 1], reported + 1)
    /\ reported' = reported + 1
    /\ UNCHANGED <<pc, orders_file, notes_file, orders_raw, notes_raw, miss_orders,
                   miss_notes, orders, notes, enriched, error, fn_in, fn_out>>

ReportDone ==
    /\ pc = "report"
    /\ reported = Len(enriched)
    /\ pc' = "done"
    /\ UNCHANGED <<run_vars, fn_in, fn_out>>

(***************************************************************************)
(* The workbooks a run is started on.  A sheet has Readable rows that can  *)
(* serve as a header; its header row, at index hdr, has the table under    *)
(* it; read at any other row it gives labels that are no headers.          *)
(***************************************************************************)
MaxRows == 1

OrderRowMenu ==
    {<<StrCell("A"), TsCell(0), TsCell(6), TsCell(6), TsCell(22), TsCell(22)>>,
     <<StrCell(" B "), StrCell("1970-01-01 00:10"), StrCell("n/a"), NanCell,
       NumCell(5), StrCell("")>>,
     <<NanCell, TsCell(0), TsCell(6), TsCell(6), TsCell(22), TsCell(22)>>,
     <<StrCell("  "), TsCell(0), TsCell(3), NanCell, NanCell, NanCell>>}

NoteRowMenu ==
    {<<StrCell("A"), TsCell(8), StrCell("late"), StrCell(" Ravi ")>>,
     <<StrCell("A"), StrCell("1970-01-01 00:30"), NanCell, NanCell>>,
     <<NumCell(7), StrCell("soon"), StrCell(""), StrCell("")>>,
     <<NanCell, TsCell(8), StrCell("x"), NumCell(3)>>}

SeqsUpTo(S, n) == UNION {[1..m -> S] : m \in 0..n}

OrderFrames ==
    {[cols |-> c, rows |-> r] : c \in {GoodOrderCols, MessyOrderCols},
                                r \in SeqsUpTo(OrderRowMenu, MaxRows)}
    \cup {[cols |-> c, rows |-> << >>] : c \in {NoShippedCols, NoIdNoCreatedCols}}

NoteFrames ==
    {[cols |-> c, rows |-> r] : c \in {GoodNoteCols, NoAgentNoteCols},
                                r \in SeqsUpTo(NoteRowMenu, MaxRows)}
    \cup {[cols |-> NoTimeNoteCols, rows |-> << >>]}

Workbook(readable, hdr, frame) ==
    [idx \in 0..(readable - 1) |-> IF idx = hdr THEN frame ELSE TitleFrame]

OrderSheets == {[readable |-> 3, hdr |-> 0], [readable |-> 3, hdr |-> 2],
                [readable |-> 12, hdr |-> 0], [readable |-> 12, hdr |-> 11]}
NoteSheets == {[readable |-> 1, hdr |-> 0], [readable |-> 2, hdr |-> 1]}

OrderFiles ==
    {Workbook(sh.readable, sh.hdr, f) : sh \in OrderSheets, f \in OrderFrames}
    \cup {<< >>}
NoteFiles ==
    {Workbook(sh.readable, sh.hdr, f) : sh \in NoteSheets, f \in NoteFrames}
    \cup {<< >>}

Init ==
    /\ pc = "load_orders"
    /\ orders_file \in OrderFiles
    /\ notes_file \in NoteFiles
    /\ Unassigned
    /\ fn_in = None /\ fn_out = None

Next ==
    \/ LoadOrders
    \/ LoadNotes
    \/ Validate
    \/ MapOrders
    \/ MapNotes
    \/ SortNotes
    \/ Enrich
    \/ EnrichDone
    \/ Report
    \/ ReportDone

Spec == Init /\ [][Next]_vars

(***************************************************************************)
(* compute_breaches on its own: every order row over BreachTimes.          *)
(***************************************************************************)
\* instants whose differences hit every threshold and its successor:
\* 5, 6 (6-1, 6-0), 7, 8 (8-1, 8-0), 15, 16 (16-1, 16-0), 10, 11 (16-6, 27-16)
BreachTimes == {0, 1, 6, 8, 16, 27}

NullableTimes(T) == {NaT} \cup {<<t>> : t \in T}

OrderRows(T) ==
    [id : {"A"}, createdOn : NullableTimes(T), placedAt : NullableTimes(T),
     acceptedAt : NullableTimes(T), readyAt : NullableTimes(T),
     shippedAt : NullableTimes(T)]

InitBreach ==
    /\ pc = "call"
    /\ fn_in \in OrderRows(BreachTimes)
    /\ fn_out = None
    /\ NoRun

CallComputeBreaches ==
    /\ pc = "call"
    /\ fn_out' = <<compute_breaches(fn_in)>>
    /\ pc' = "ret"
    /\ UNCHANGED <<fn_in, run_vars>>

NextBreach == CallComputeBreaches

SpecBreach == InitBreach /\ [][NextBreach]_vars

(***************************************************************************)
(* pick on its own: a row of up to MaxCols columns with distinct labels    *)
(* from PickLabels, each cell holding the label of its column, and the     *)
(* same row with its columns in another order.                             *)
(***************************************************************************)
MaxCols == 3

PickRows ==
    {[cols |-> c, cells |-> [i \in DOMAIN c |-> StrCell(c[i])]] :
        c \in {q \in SeqsUpTo(PickLabels, MaxCols) :
                \A i, j \in DOMAIN q : q[i] = q[j] => i = j}}

InitPick ==
    /\ pc = "call_pick"
    /\ fn_in \in {[row |-> r, permuted |-> q] : r, q \in PickRows}
    /\ Range(fn_in.row.cols) = Range(fn_in.permuted.cols)
    /\ fn_out = None
    /\ NoRun

CallPick ==
    /\ pc = "call_pick"
    /\ \E field \in DOMAIN ORDERS_COL_ALIASES :
        fn_out' = <<[field |-> field,
                     row |-> pick(fn_in.row, ORDERS_COL_ALIASES[field]),
                     permuted |-> pick(fn_in.permuted, ORDERS_COL_ALIASES[field])]>>
    /\ pc' = "picked"
    /\ UNCHANGED <<fn_in, run_vars>>

NextPick == CallPick

SpecPick == InitPick /\ [][NextPick]_vars

(***************************************************************************)
(* The report on its own, lines 226-381: the script from the mapped        *)
(* tables on, for one order and up to MaxNotes notes.  ReportTimes lets    *)
(* every stage be breached or not with its end present; NoteTimes fall     *)
(* before, on, within 5 minutes of, 5 minutes after and later than the     *)
(* stage ends 6 and 22.  A note of another order keeps notes non-empty     *)
(* when the order has none.                                                *)
(***************************************************************************)
MaxNotes == 2

ReportTimes == {0, 6, 22}
NoteTimes == {5, 6, 11, 12, 27, 28}

NoteRecords ==
    [id : {"A"}, noteAt : NullableTimes(NoteTimes), description : {StrCell("late")},
     agent : {"Ravi"}]
    \cup {[id |-> "B", noteAt |-> <<6>>, description |-> StrCell(""), agent |-> ""]}

InitReport ==
    /\ pc = "sort_notes"
    /\ orders \in {<<o>> : o \in OrderRows(ReportTimes)}
    /\ notes \in SeqsUpTo(NoteRecords, MaxNotes)
    /\ orders_file = << >> /\ notes_file = << >>
    /\ orders_raw = None /\ notes_raw = None
    /\ miss_orders = << >> /\ miss_notes = << >>
    /\ enriched = << >> /\ out_rows = << >>
    /\ reported = 0 /\ error = ""
    /\ fn_in = None /\ fn_out = None

NextReport ==
    \/ SortNotes
    \/ Enrich
    \/ EnrichDone
    \/ Report
    \/ ReportDone

SpecReport == InitReport /\ [][NextReport]_vars

(***************************************************************************)
(* The stage table as the specification states it: interval and threshold  *)
(* of each of the five stages, in stage order.                             *)
(***************************************************************************)
StageTable ==
    <<[key |-> "created_to_placed",      from |-> "createdOn",  to |-> "placedAt",   limit |-> 5],
      [key |-> "placed_to_accepted",     from |-> "placedAt",   to |-> "acceptedAt", limit |-> 7],
      [key |-> "accepted_to_in_kitchen", from |-> "acceptedAt", to |-> "readyAt",    limit |-> 5],
      [key |-> "in_kitchen_to_ready",    from |-> "acceptedAt", to |-> "readyAt",    limit |-> 15],
      [key |-> "ready_to_shipped",       from |-> "readyAt",    to |-> "shippedAt",  limit |-> 10]>>

BreachResult == Val(fn_out)

\* C1: for every order and each of the 5 stages of compute_breaches, breached
\* is true iff the duration is non-null (both endpoints present) and strictly
\* greater than the stage's threshold (5, 7, 5, 15, 10); a duration equal to
\* the threshold is no breach and a stage with a missing endpoint is never
\* breached.
C1_BreachedIffOverThreshold ==
    pc = "ret" =>
        /\ Len(BreachResult.stages) = 5
        /\ \A i \in 1..5 :
            LET s == BreachResult.stages[i]
                a == fn_in[StageTable[i].from]
                b == fn_in[StageTable[i].to]
            IN  /\ s.key = StageTable[i].key
                /\ s.breached <=> (s.duration # None /\ Val(s.duration) > StageTable[i].limit)
                /\ s.breached <=> (~isna(a) /\ ~isna(b) /\ Val(b) - Val(a) > StageTable[i].limit)
                /\ s.duration = <<StageTable[i].limit>> => ~s.breached
                /\ (isna(a) \/ isna(b)) => ~s.breached

\* C1 witness: one order with a stage exactly at its threshold (not breached),
\* a stage one minute over it (breached) and a stage with a missing endpoint.
C1_Witness ==
    /\ pc = "ret"
    /\ \E i \in 1..5 : /\ BreachResult.stages[i].duration = <<StageTable[i].limit>>
                        /\ ~BreachResult.stages[i].breached
    /\ \E i \in 1..5 : /\ BreachResult.stages[i].duration = <<StageTable[i].limit + 1>>
                        /\ BreachResult.stages[i].breached
    /\ \E i \in 1..5 : /\ isna(BreachResult.stages[i].segmentStart)
                        /\ ~isna(BreachResult.stages[i].segmentEnd)
                        /\ ~BreachResult.stages[i].breached

\* the stages a first breach is chosen among: breached, with a present end
Eligible(r) == {i \in 1..5 : r.stages[i].breached /\ ~isna(r.stages[i].segmentEnd)}

\* C2: the first breach is the stage with the earliest segmentEnd among the
\* breached stages with a present segmentEnd, ties going to the stage that
\* comes first in stage order; it is null exactly when there is no such stage.
C2_FirstBreachEarliestEnd ==
    pc = "ret" =>
        LET r == BreachResult
        IN  /\ (r.first_breach = None) <=> (Eligible(r) = {})
            /\ Eligible(r) # {} =>
                \E i \in Eligible(r) :
                    /\ Val(r.first_breach) = r.stages[i]
                    /\ \A j \in Eligible(r) :
                        /\ Val(r.stages[i].segmentEnd) <= Val(r.stages[j].segmentEnd)
                        /\ r.stages[j].segmentEnd = r.stages[i].segmentEnd => i <= j
                    /\ r.earliest_breach_time = r.stages[i].segmentEnd

\* C2 witness: both kitchen stages breached and earliest, a later stage
\* breached too, and accepted_to_in_kitchen chosen.
C2_Witness ==
    /\ pc = "ret"
    /\ {3, 4, 5} \subseteq Eligible(BreachResult)
    /\ 1 \notin Eligible(BreachResult)
    /\ 2 \notin Eligible(BreachResult)
    /\ Val(BreachResult.stages[5].segmentEnd) > Val(BreachResult.stages[3].segmentEnd)
    /\ Val(BreachResult.first_breach).key = "accepted_to_in_kitchen"

RowsOf(ord) == {i \in DOMAIN out_rows : out_rows[i].src.ord = ord}

RowsAt(ord, k, j) ==
    {i \in RowsOf(ord) : out_rows[i].src.stage = k /\ out_rows[i].src.note = j}

\* the report of every order walked so far has exactly one row per stage in
\* Listed(er) and note (one per such stage when the order has no notes) and
\* exactly one placeholder row when Listed(er) is empty
ReportShape(Listed(_)) ==
    \A ord \in 1..reported :
        LET er == enriched[ord]
            listed == Listed(er)
            slots == IF listed = {} THEN {<<0, 0>>}
                     ELSE IF er.notes = << >> THEN {<<k, 0>> : k \in listed}
                     ELSE listed \X DOMAIN er.notes
        IN  /\ \A i \in RowsOf(ord) :
                /\ <<out_rows[i].src.stage, out_rows[i].src.note>> \in slots
                /\ out_rows[i].id = er.id
                /\ out_rows[i].stage =
                    IF out_rows[i].src.stage = 0 THEN Dash
                    ELSE STAGE_LABELS[er.stages[out_rows[i].src.stage].key]
                /\ out_rows[i].note_time =
                    IF out_rows[i].src.note = 0 THEN Dash
                    ELSE fmt_time(er.notes[out_rows[i].src.note].noteAt)
            /\ \A sl \in slots : Cardinality(RowsAt(ord, sl[1], sl[2])) = 1

BreachedWithEnd(er) ==
    {k \in DOMAIN er.stages : er.stages[k].breached /\ ~isna(er.stages[k].segmentEnd)}

WithEnd(er) == {k \in DOMAIN er.stages : ~isna(er.stages[k].segmentEnd)}

C4_CorrelationPartition ==
    \A i \in DOMAIN out_rows :
        LET r == out_rows[i]
        IN  (r.src.stage # 0 /\ r.src.note # 0) =>
            LET st == enriched[r.src.ord].stages[r.src.stage]
                n == enriched[r.src.ord].notes[r.src.note]
                within == r.within5 = "Yes"
                after == r.after5 = "Yes"
            IN  /\ r.tat_time = fmt_time(st.segmentEnd)
                /\ r.note_time = fmt_time(n.noteAt)
                /\ r.within5 \in {"Yes", Dash} /\ r.after5 \in {"Yes", Dash}
                /\ ~(within /\ after)
                /\ IF st.breached /\ ~isna(st.segmentEnd) /\ ~isna(n.noteAt)
                   THEN LET e == Val(st.segmentEnd)
                            t == Val(n.noteAt)
                        IN  /\ within <=> (e <= t /\ t <= e + 5)
                            /\ after <=> (t > e + 5)
                            /\ (~within /\ ~after) <=> (t < e)
                   ELSE ~within /\ ~after

\* C4 witness: a finished report with a note exactly at the end of the grace
\* window (within), a note one minute past it (after) and a note before the
\* end of a breached stage (neither flag).
C4_Witness ==
    /\ pc = "done"
    /\ \E a, b, c \in DOMAIN out_rows :
        LET Stage(i) == enriched[1].stages[out_rows[i].src.stage]
            NoteAt(i) == enriched[1].notes[out_rows[i].src.note].noteAt
        IN  /\ \A i \in {a, b, c} :
                /\ out_rows[i].src.stage # 0 /\ out_rows[i].src.note # 0
                /\ Stage(i).breached /\ ~isna(NoteAt(i))
            /\ Val(NoteAt(a)) = Val(Stage(a).segmentEnd) + 5
            /\ out_rows[a].within5 = "Yes" /\ out_rows[a].after5 = Dash
            /\ Val(NoteAt(b)) = Val(Stage(b).segmentEnd) + 6
            /\ out_rows[b].within5 = Dash /\ out_rows[b].after5 = "Yes"
            /\ Val(NoteAt(c)) < Val(Stage(c).segmentEnd)
            /\ out_rows[c].within5 = Dash /\ out_rows[c].after5 = Dash

\* C6: alias resolution is order-independent: pick reads the same column,
\* hence the same cell, from a row and from the row with its columns
\* permuted, for every field, also when several columns match aliases of
\* the field or normalize to the same label.
C6_PickOrderIndependent ==
    pc = "picked" => fn_out[1].row = fn_out[1].permuted

(***************************************************************************)
(* The required fields of the two tables as the specification lists them,  *)
(* and the aliases of each.  An alias matches a column when the two are    *)
(* equal once normalized.                                                  *)
(***************************************************************************)
RequiredOrderFields ==
    {"identifier", "createdOn", "placedAt", "acceptedAt", "readyAt", "shippedAt"}
RequiredNoteFields == {"identifier", "noteAt"}

OrderAliases(f) == IF f = "identifier" THEN ORDER_ID_ALIASES ELSE ORDERS_COL_ALIASES[f]
NoteAliases(f) == IF f = "identifier" THEN NOTES_ID_ALIASES ELSE NOTES_COL_ALIASES[f]

Matches(col, alias) == normalize(col) = normalize(alias)

UnresolvedOrderFields(cols) ==
    {f \in RequiredOrderFields :
        \A c \in Range(cols) : \A a \in Range(OrderAliases(f)) : ~Matches(c, a)}
UnresolvedNoteFields(cols) ==
    {f \in RequiredNoteFields :
        \A c \in Range(cols) : \A a \in Range(NoteAliases(f)) : ~Matches(c, a)}

NoDuplicates(seq) == \A i, j \in DOMAIN seq : seq[i] = seq[j] => i = j

Validated == pc \notin {"load_orders", "load_notes", "validate"}
             /\ error # "AttributeError in validate"

BlankId(x) == isna_cell(x) \/ strip(str(x)) = ""

OrdersMapped == pc \in {"map_notes", "sort_notes", "enrich", "report", "done"}
                \/ error \in {"AttributeError in map_notes", "KeyError in sort_values"}
NotesMapped == pc \in {"sort_notes", "enrich", "report", "done"}
               \/ error = "KeyError in sort_values"

KeptRows(df, aliases) ==
    SelectSeq([i \in DOMAIN df.rows |-> pick(Row(df, i), aliases)],
              LAMBDA x : ~BlankId(x))

\* C7: every record of map_orders and map_notes has a trimmed, non-empty
\* identifier; a row whose identifier cell is missing, empty or whitespace
\* only is dropped, and every other row yields exactly one record, in row
\* order, duplicates included.
C7_IdentifierNonEmpty ==
    /\ OrdersMapped =>
        LET kept == KeptRows(Val(orders_raw), ORDER_ID_ALIASES)
        IN  /\ Len(orders) = Len(kept)
            /\ \A i \in DOMAIN orders :
                /\ orders[i].id # ""
                /\ orders[i].id = strip(orders[i].id)
                /\ i \in DOMAIN kept => orders[i].id = strip(str(kept[i]))
    /\ NotesMapped =>
        LET kept == KeptRows(Val(notes_raw), NOTES_ID_ALIASES)
        IN  /\ Len(notes) = Len(kept)
            /\ \A i \in DOMAIN notes :
                /\ notes[i].id # ""
                /\ notes[i].id = strip(notes[i].id)
                \* row order, before the notes are sorted
                /\ (pc = "sort_notes" /\ i \in DOMAIN kept) =>
                        notes[i].id = strip(str(kept[i]))

\* C8: on a schema-valid table map_orders and map_notes never raise, whatever
\* the cells hold; blank optional fields become the empty string.
C8_RowMappingTotal ==
    /\ error # "AttributeError in map_notes"
    /\ NotesMapped =>
        \A i \in DOMAIN notes : notes[i].description.k # "nan"

\* what C10 says load_with_header_auto returns: the table at the first
\* candidate, in the order preferred, 0, 1, ..., 30, that can be read and
\* resolves every required field; if there is none, the table at the
\* preferred index (index 0 without one), which fails validation
Resolves(file, idx, is_orders) ==
    /\ idx \in DOMAIN file
    /\ IF is_orders THEN UnresolvedOrderFields(file[idx].cols) = {}
       ELSE UnresolvedNoteFields(file[idx].cols) = {}

Candidates(preferred) == preferred \o [i \in 1..31 |-> i - 1]

ClaimedLoad(file, preferred, is_orders, result) ==
    LET cand == Candidates(preferred)
        hits == {i \in DOMAIN cand : Resolves(file, cand[i], is_orders)}
        first == CHOOSE i \in hits : \A j \in hits : i <= j
        fallback == IF preferred # None THEN Val(preferred) ELSE 0
    IN  IF hits # {} THEN result = <<file[cand[first]]>>
        ELSE /\ fallback \in DOMAIN file
             /\ result = <<file[fallback]>>

\* C10: load_with_header_auto returns the table at the first candidate
\* (preferred index first, then 0..30) that resolves every required field,
\* and otherwise the table parsed at the preferred index, which then fails
\* validation.
C10_HeaderCandidateOrder ==
    /\ pc # "load_orders" =>
        ClaimedLoad(orders_file, <<ORDERS_HEADER_INDEX>>, TRUE, orders_raw)
    /\ pc \notin {"load_orders", "load_notes"} =>
        ClaimedLoad(notes_file, <<NOTES_HEADER_INDEX>>, FALSE, notes_raw)

=============================================================================
